---------------------------- MODULE Spec2Model ----------------------------
(***************************************************************************)
(* Model of src/editor.rs: the Editor session (cell grid, style registry,  *)
(* previous style), its event handlers (draw, scroll_region, clear,        *)
(* resize, define_style, set_default_colors) and build_draw_commands.      *)
(*                                                                         *)
(* Encoding.  Option<T>: None is <<>>, Some(x) is <<x>>.  A GridCell       *)
(* Option<(char, Style)> is <<>> or the pair <<character, style>>.  Vec<T> *)
(* is a function over 0..len-1 so that the indices of the source are kept. *)
(* HashMap<u64, Style> is a function whose domain is the set of keys.      *)
(* A Rust panic (expect, index out of bounds) is status = "panicked".      *)
(***************************************************************************)
EXTENDS Integers, Sequences, FiniteSets, TLC

VARIABLES grid, size, default_colors, defined_styles, previous_style,
          status, commands, last, prev, steps

vars == <<grid, size, default_colors, defined_styles, previous_style,
          status, commands, last, prev, steps>>

(***************************************************************************)
(* Bounds of the model.                                                    *)
(***************************************************************************)
MaxWidth == 2
MaxHeight == 2
MaxId == 1
MaxDelta == 2
MaxSteps == 4
MaxCells == 6
ScrollWidth == 3
ScrollHeight == 3

(***************************************************************************)
(* Option, Vec                                                             *)
(***************************************************************************)
None == <<>>
Some(x) == <<x>>
IsSome(o) == o # <<>>
Unwrap(o) == o[1]

VecLen(v) == Cardinality(DOMAIN v)
VecOf(n, x) == [i \in 0..(n - 1) |-> x]

(***************************************************************************)
(* Colors, Style                                                           *)
(***************************************************************************)
WHITE == "WHITE"
BLACK == "BLACK"
GREY == "GREY"
RED == "RED"

ColorsNew(fg, bg, sp) == [foreground |-> fg, background |-> bg, special |-> sp]

StyleNew(colors) ==
    [colors |-> colors, reverse |-> FALSE, italic |-> FALSE, bold |-> FALSE,
     strikethrough |-> FALSE, underline |-> FALSE, undercurl |-> FALSE,
     blend |-> 0]

\* The styles the host registers with define_style: one with every colour
\* set and some attributes, one that leaves colours unset.
BoldRed ==
    [StyleNew(ColorsNew(Some(RED), Some(BLACK), Some(GREY))) EXCEPT !.bold = TRUE]

UnderlinedUnset ==
    [StyleNew(ColorsNew(Some(WHITE), None, None)) EXCEPT !.underline = TRUE, !.blend = 7]

StyleChoices == { BoldRed, UnderlinedUnset }

\* The colour triple the host sends with set_default_colors.
ColorChoices == { <<BLACK, WHITE, RED>> }

\* The style ids of a line update: none, 0, and the ids up to MaxId.
StyleIds == { None } \cup { Some(i) : i \in 0..MaxId }

(***************************************************************************)
(* Editor::clear: the grid it builds                                       *)
(***************************************************************************)
\* ClearedGrid with width and height taken the wrong way round.
ClearedGridSwapped(sz) == VecOf(sz[1], VecOf(sz[2], None))

ClearedGrid(sz) == VecOf(sz[2], VecOf(sz[1], None))

(***************************************************************************)
(* Editor::draw                                                            *)
(***************************************************************************)
\* ResolveStyle that fills the unset colours of a registered style from the
\* default colours.
ResolveStyleMerging(style_id, prev_style, dc, styles) ==
    IF IsSome(style_id) /\ Unwrap(style_id) = 0 THEN StyleNew(dc)
    ELSE IF IsSome(style_id)
    THEN [styles[Unwrap(style_id)] EXCEPT
            !.colors = [k \in DOMAIN @ |-> IF IsSome(@[k]) THEN @[k] ELSE dc[k]]]
    ELSE IF IsSome(prev_style) THEN Unwrap(prev_style)
    ELSE StyleNew(dc)

\* The match of lines 135-140; Lookup fails (expect) on an undefined id.
LookupFails(style_id, styles) ==
    /\ IsSome(style_id)
    /\ Unwrap(style_id) # 0
    /\ Unwrap(style_id) \notin DOMAIN styles

\* ResolveStyle with the previous style never carried over.
ResolveStyleNoCarry(style_id, prev_style, dc, styles) ==
    IF IsSome(style_id) /\ Unwrap(style_id) = 0 THEN StyleNew(dc)
    ELSE IF IsSome(style_id) THEN styles[Unwrap(style_id)]
    ELSE StyleNew(dc)

\* ResolveStyle with id 0 looked up in the registry like any other id.
ResolveStyleLookupZero(style_id, prev_style, dc, styles) ==
    IF IsSome(style_id) /\ Unwrap(style_id) \in DOMAIN styles
    THEN styles[Unwrap(style_id)]
    ELSE IF IsSome(style_id) THEN StyleNew(dc)
    ELSE IF IsSome(prev_style) THEN Unwrap(prev_style)
    ELSE StyleNew(dc)

ResolveStyle(style_id, prev_style, dc, styles) ==
    IF IsSome(style_id) /\ Unwrap(style_id) = 0 THEN StyleNew(dc)
    ELSE IF IsSome(style_id) THEN styles[Unwrap(style_id)]
    ELSE IF IsSome(prev_style) THEN Unwrap(prev_style)
    ELSE StyleNew(dc)

\* DrawRow that puts the last character of a text running past the end of
\* the row into the last column.
DrawRowKeepingOverflow(row, col_start, text, style) ==
    [x \in DOMAIN row |->
        IF x = VecLen(row) - 1 /\ x - col_start >= 0 /\ x - col_start < Len(text)
        THEN <<text[Len(text)], style>>
        ELSE IF x - col_start >= 0 /\ x - col_start < Len(text)
        THEN <<text[x - col_start + 1], style>>
        ELSE row[x]]

\* Lines 142-152: the cells of row row_index written by the characters
\* whose column is inside the row; an out-of-range row writes nothing.
DrawRow(row, col_start, text, style) ==
    [x \in DOMAIN row |->
        IF x - col_start >= 0 /\ x - col_start < Len(text)
        THEN <<text[x - col_start + 1], style>>
        ELSE row[x]]

\* DrawGrid that writes a row below the grid onto the last row.
DrawGridClampingRow(g, row_index, col_start, text, style) ==
    IF row_index < VecLen(g)
    THEN [g EXCEPT ![row_index] = DrawRow(g[row_index], col_start, text, style)]
    ELSE IF VecLen(g) > 0
    THEN [g EXCEPT ![VecLen(g) - 1] = DrawRow(g[VecLen(g) - 1], col_start, text, style)]
    ELSE g

DrawGrid(g, row_index, col_start, text, style) ==
    IF row_index < VecLen(g)
    THEN [g EXCEPT ![row_index] = DrawRow(g[row_index], col_start, text, style)]
    ELSE g

(***************************************************************************)
(* Editor::scroll_region                                                   *)
(***************************************************************************)
\* Lines 158-164.
SrcRows(top, bot, rows) ==
    IF rows > 0 THEN <<top + rows, bot>>
    ELSE IF rows < 0 THEN <<top, bot + rows>>
    ELSE <<top, bot>>

\* Lines 166-172: the second test reads rows, as the source does.
SrcCols(left, right, rows, cols) ==
    IF cols > 0 THEN <<left + cols, right>>
    ELSE IF rows < 0 THEN <<left, right + cols>>
    ELSE <<left, right>>

\* Lines 177-185: an index outside the grid panics.
RegionReadFails(g, top, bot, left, right) ==
    \E y \in top..(bot - 1) :
        \/ y \notin DOMAIN g
        \/ \E x \in left..(right - 1) : x \notin DOMAIN g[y]

\* Region with the left offset of the source forgotten.
RegionFromColumnZero(g, top, bot, left, right) ==
    [y \in 0..(bot - top - 1) |->
        [x \in 0..(right - left - 1) |-> g[top + y][x]]]

\* The snapshot, in relative coordinates.
Region(g, top, bot, left, right) ==
    [y \in 0..(bot - top - 1) |->
        [x \in 0..(right - left - 1) |-> g[top + y][left + x]]]

\* Lines 192-203: write the snapshot at (new_top, new_left); a destination
\* outside the grid is skipped.
WriteRegion(g, region, new_top, new_left) ==
    [y \in DOMAIN g |->
        [x \in DOMAIN g[y] |->
            IF /\ (y - new_top) \in DOMAIN region
               /\ (x - new_left) \in DOMAIN region[y - new_top]
            THEN region[y - new_top][x - new_left]
            ELSE g[y][x]]]

\* The length of the rows of g.
Width(g) == IF VecLen(g) = 0 THEN 0 ELSE VecLen(g[0])

\* Lines 192-203: the cells of g assigned when the snapshot of the source
\* rows and columns is written back.
ScrollWrites(g, top, bot, left, right, rows, cols) ==
    LET sr == SrcRows(top, bot, rows)
        sc == SrcCols(left, right, rows, cols)
    IN  { <<y, x>> \in (0..(VecLen(g) - 1)) \X (0..(Width(g) - 1)) :
            /\ y \in DOMAIN g /\ x \in DOMAIN g[y]
            /\ sr[1] <= y + rows /\ y + rows < sr[2]
            /\ sc[1] <= x + cols /\ x + cols < sc[2] }

ScrollFails(g, top, bot, left, right, rows, cols) ==
    LET sr == SrcRows(top, bot, rows)
        sc == SrcCols(left, right, rows, cols)
    IN  RegionReadFails(g, sr[1], sr[2], sc[1], sc[2])

\* The shift done cell by cell inside the grid, in row-major order, with no
\* snapshot between the reads and the writes.
RECURSIVE CopyInPlace(_, _, _, _)
CopyInPlace(g, cells, rows, cols) ==
    IF cells = <<>> THEN g
    ELSE LET y == Head(cells)[1]
             x == Head(cells)[2]
             moved == IF (y - rows) \in DOMAIN g /\ (x - cols) \in DOMAIN g[y - rows]
                      THEN [g EXCEPT ![y - rows][x - cols] = g[y][x]]
                      ELSE g
         IN  CopyInPlace(moved, Tail(cells), rows, cols)

ScrollGridInPlace(g, top, bot, left, right, rows, cols) ==
    LET sr == SrcRows(top, bot, rows)
        sc == SrcCols(left, right, rows, cols)
        h == IF sr[2] > sr[1] THEN sr[2] - sr[1] ELSE 0
        w == IF sc[2] > sc[1] THEN sc[2] - sc[1] ELSE 0
        cells == [i \in 1..(h * w) |->
                    <<sr[1] + ((i - 1) \div w), sc[1] + ((i - 1) % w)>>]
    IN  CopyInPlace(g, cells, rows, cols)

ScrollGrid(g, top, bot, left, right, rows, cols) ==
    LET sr == SrcRows(top, bot, rows)
        sc == SrcCols(left, right, rows, cols)
        region == Region(g, sr[1], sr[2], sc[1], sc[2])
    IN  WriteRegion(g, region, sr[1] - rows, sc[1] - cols)

(***************************************************************************)
(* Editor::build_draw_commands                                             *)
(***************************************************************************)
DrawCommandNew(text, row, col_start, style) ==
    [text |-> text, row |-> row, col_start |-> col_start, style |-> style]

add_command(commands_list, command) ==
    IF IsSome(command) THEN Append(commands_list, Unwrap(command))
    ELSE commands_list

\* command_matches that never finds the open command to match.
command_matches_never(command, style) == FALSE

command_matches(command, style) ==
    IF IsSome(command) THEN Unwrap(command).style = style ELSE TRUE

add_character(command, character, row_index, col_index, style) ==
    IF IsSome(command)
    THEN Some([Unwrap(command) EXCEPT !.text = Append(@, character)])
    ELSE Some(DrawCommandNew(<<character>>, row_index, col_index, style))

\* ScanRow with the open command kept across an empty cell.
RECURSIVE ScanRowKeepOpen(_, _, _, _, _)
ScanRowKeepOpen(row, row_index, col_index, draw_commands, command) ==
    IF col_index >= VecLen(row)
    THEN add_command(draw_commands, command)
    ELSE LET cell == row[col_index]
         IN  IF IsSome(cell)
             THEN IF ~command_matches(command, cell[2])
                  THEN ScanRowKeepOpen(row, row_index, col_index + 1,
                               add_command(draw_commands, command),
                               add_character(None, cell[1], row_index, col_index, cell[2]))
                  ELSE ScanRowKeepOpen(row, row_index, col_index + 1, draw_commands,
                               add_character(command, cell[1], row_index, col_index, cell[2]))
             ELSE ScanRowKeepOpen(row, row_index, col_index + 1, draw_commands, command)

\* The loop of lines 113-125 from column col_index on.
RECURSIVE ScanRow(_, _, _, _, _)
ScanRow(row, row_index, col_index, draw_commands, command) ==
    IF col_index >= VecLen(row)
    THEN add_command(draw_commands, command)
    ELSE LET cell == row[col_index]
         IN  IF IsSome(cell)
             THEN IF ~command_matches(command, cell[2])
                  THEN ScanRow(row, row_index, col_index + 1,
                               add_command(draw_commands, command),
                               add_character(None, cell[1], row_index, col_index, cell[2]))
                  ELSE ScanRow(row, row_index, col_index + 1, draw_commands,
                               add_character(command, cell[1], row_index, col_index, cell[2]))
             ELSE ScanRow(row, row_index, col_index + 1,
                          add_command(draw_commands, command), None)

RowCommands(g, row_index) == ScanRow(g[row_index], row_index, 0, <<>>, None)

\* FlattenRows with the rows' lists in reverse row order.
RECURSIVE FlattenRowsReversed(_, _)
FlattenRowsReversed(g, row_index) ==
    IF row_index >= VecLen(g) THEN <<>>
    ELSE FlattenRowsReversed(g, row_index + 1) \o RowCommands(g, row_index)

\* map(...).flatten().collect(): the rows' lists in row order.
RECURSIVE FlattenRows(_, _)
FlattenRows(g, row_index) ==
    IF row_index >= VecLen(g) THEN <<>>
    ELSE RowCommands(g, row_index) \o FlattenRows(g, row_index + 1)

BuildDrawCommands(g) == FlattenRows(g, 0)

(***************************************************************************)
(* The session: Editor::new and the event handlers                         *)
(***************************************************************************)
\* The session as an event finds it; last and prev keep it with the event.
Snapshot ==
    [grid |-> grid, size |-> size, default_colors |-> default_colors,
     defined_styles |-> defined_styles, previous_style |-> previous_style]

EmptyMap == [i \in {} |-> None]

\* The default colours of Editor::new, line 78.
InitColors == ColorsNew(Some(WHITE), Some(BLACK), Some(GREY))

\* Editor::new(nvim, width, height), lines 71-84.
Init ==
    /\ size = <<MaxWidth, MaxHeight>>
    /\ grid = ClearedGrid(size)
    /\ default_colors = InitColors
    /\ defined_styles = EmptyMap
    /\ previous_style = None
    /\ status = "ok"
    /\ commands = <<>>
    /\ last = [op |-> "new"]
    /\ prev = [op |-> "none"]
    /\ steps = 0

Ready == status = "ok" /\ steps < MaxSteps

Record(ev) ==
    /\ last' = ev
    /\ prev' = last
    /\ steps' = steps + 1

\* Editor::draw, lines 131-155.
Draw(row, col_start, text, style_id) ==
    /\ Ready
    /\ IF LookupFails(style_id, defined_styles)
       THEN /\ status' = "panicked"
            /\ UNCHANGED <<grid, previous_style>>
            /\ Record([op |-> "draw", row |-> row, col_start |-> col_start,
                       text |-> text, style_id |-> style_id, style |-> None,
                       before |-> Snapshot])
       ELSE LET style == ResolveStyle(style_id, previous_style,
                                      default_colors, defined_styles)
            IN  /\ grid' = DrawGrid(grid, row, col_start, text, style)
                /\ previous_style' = Some(style)
                /\ status' = "ok"
                /\ Record([op |-> "draw", row |-> row, col_start |-> col_start,
                           text |-> text, style_id |-> style_id,
                           style |-> Some(style), before |-> Snapshot])
    /\ UNCHANGED <<size, default_colors, defined_styles, commands>>

\* Editor::scroll_region, lines 157-204.
ScrollRegion(top, bot, left, right, rows, cols) ==
    /\ Ready
    /\ IF ScrollFails(grid, top, bot, left, right, rows, cols)
       THEN status' = "panicked" /\ UNCHANGED grid
       ELSE status' = "ok"
            /\ grid' = ScrollGrid(grid, top, bot, left, right, rows, cols)
    /\ Record([op |-> "scroll_region", top |-> top, bot |-> bot, left |-> left,
               right |-> right, rows |-> rows, cols |-> cols,
               before |-> Snapshot])
    /\ UNCHANGED <<size, default_colors, defined_styles, previous_style, commands>>

\* Clear that also forgets the previous style.
ClearDroppingStyle ==
    /\ Ready
    /\ grid' = ClearedGrid(size)
    /\ previous_style' = None
    /\ Record([op |-> "clear", before |-> Snapshot])
    /\ UNCHANGED <<size, default_colors, defined_styles, status, commands>>

\* Clear that gives the grid its new dimensions and keeps the cells that fit.
ClearKeepingCells ==
    /\ Ready
    /\ grid' = [y \in 0..(size[2] - 1) |-> [x \in 0..(size[1] - 1) |->
                  IF y \in DOMAIN grid /\ x \in DOMAIN grid[y]
                  THEN grid[y][x] ELSE None]]
    /\ Record([op |-> "clear", before |-> Snapshot])
    /\ UNCHANGED <<size, default_colors, defined_styles, previous_style,
                   status, commands>>

\* Editor::clear, lines 207-210.
Clear ==
    /\ Ready
    /\ grid' = ClearedGrid(size)
    /\ Record([op |-> "clear", before |-> Snapshot])
    /\ UNCHANGED <<size, default_colors, defined_styles, previous_style,
                   status, commands>>

\* Editor::resize, lines 212-215; granted is the host's answer to
\* ui_try_resize, and expect panics on a rejection.
ResizedSize(sz, new_width, new_height) == <<new_width, new_height>>

\* Resize that carries on after a rejection instead of panicking.
ResizeSurvivingRejection(new_width, new_height, granted) ==
    /\ Ready
    /\ IF granted
       THEN size' = ResizedSize(size, new_width, new_height)
       ELSE UNCHANGED size
    /\ status' = "ok"
    /\ Record([op |-> "resize", new_width |-> new_width,
               new_height |-> new_height, granted |-> granted,
               before |-> Snapshot])
    /\ UNCHANGED <<grid, default_colors, defined_styles, previous_style, commands>>

Resize(new_width, new_height, granted) ==
    /\ Ready
    /\ IF granted
       THEN size' = ResizedSize(size, new_width, new_height) /\ status' = "ok"
       ELSE status' = "panicked" /\ UNCHANGED size
    /\ Record([op |-> "resize", new_width |-> new_width,
               new_height |-> new_height, granted |-> granted,
               before |-> Snapshot])
    /\ UNCHANGED <<grid, default_colors, defined_styles, previous_style, commands>>

\* Editor::define_style, lines 217-219.
\* Insert that keeps the style already bound to the id.
InsertKeepingFirst(map, id, style) ==
    [i \in DOMAIN map \cup {id} |-> IF i \in DOMAIN map THEN map[i] ELSE style]

Insert(map, id, style) ==
    [i \in DOMAIN map \cup {id} |-> IF i = id THEN style ELSE map[i]]

DefineStyle(id, style) ==
    /\ Ready
    /\ defined_styles' = Insert(defined_styles, id, style)
    /\ Record([op |-> "define_style", id |-> id, style |-> style,
               before |-> Snapshot])
    /\ UNCHANGED <<grid, size, default_colors, previous_style, status, commands>>

\* SetDefaultColors that also recolours the cells already written.
SetDefaultColorsRecolouring(foreground, background, special) ==
    /\ Ready
    /\ default_colors' = ColorsNew(Some(foreground), Some(background), Some(special))
    /\ grid' = [y \in DOMAIN grid |-> [x \in DOMAIN grid[y] |->
                  IF IsSome(grid[y][x])
                  THEN <<grid[y][x][1],
                         [grid[y][x][2] EXCEPT !.colors = default_colors']>>
                  ELSE None]]
    /\ Record([op |-> "set_default_colors", before |-> Snapshot])
    /\ UNCHANGED <<size, defined_styles, previous_style, status, commands>>

\* Editor::set_default_colors, lines 221-223.
SetDefaultColors(foreground, background, special) ==
    /\ Ready
    /\ default_colors' = ColorsNew(Some(foreground), Some(background), Some(special))
    /\ Record([op |-> "set_default_colors", before |-> Snapshot])
    /\ UNCHANGED <<grid, size, defined_styles, previous_style, status, commands>>

\* Editor::build_draw_commands, lines 86-129, called by the renderer.
Build ==
    /\ Ready
    /\ commands' = BuildDrawCommands(grid)
    /\ Record([op |-> "build_draw_commands", before |-> Snapshot])
    /\ UNCHANGED <<grid, size, default_colors, defined_styles, previous_style,
                   status>>

\* The events the host sends in a session.  Line updates: one filling row 0,
\* one on row 1 whose text runs over the right edge, one with no text, one
\* below the last row.
LineUpdates ==
    { <<0, 0, <<"a", "b">>>>, <<1, MaxWidth - 1, <<"b", "a">>>>,
      <<0, 1, <<>>>>, <<MaxHeight, 0, <<"a">>>> }

\* Scrolls of the whole screen of the recorded size: by a row or a column
\* either way, and not at all.
SessionDeltas == { <<1, 0>>, <<-1, 0>>, <<0, 1>>, <<0, -1>>, <<0, 0>> }

\* The sizes the window asks for: a narrower and a lower one.
ResizeChoices == { <<1, MaxHeight>>, <<MaxWidth, 1>> }

Next ==
    \/ \E lu \in LineUpdates, style_id \in StyleIds :
          Draw(lu[1], lu[2], lu[3], style_id)
    \/ \E d \in SessionDeltas :
          ScrollRegion(0, size[2], 0, size[1], d[1], d[2])
    \/ Clear
    \/ \E sz \in ResizeChoices, granted \in BOOLEAN : Resize(sz[1], sz[2], granted)
    \/ \E id \in 0..MaxId, style \in StyleChoices : DefineStyle(id, style)
    \/ \E c \in ColorChoices : SetDefaultColors(c[1], c[2], c[3])
    \/ Build

Spec == Init /\ [][Next]_vars

(***************************************************************************)
(* scroll_region alone: one call on a grid of distinct cells, then the     *)
(* call with the opposite deltas.                                          *)
(***************************************************************************)
Alphabet == <<"a", "b", "c", "d", "e", "f", "g", "h", "i", "j", "k", "l",
              "m", "n", "o", "p", "q", "r", "s", "t">>

\* A grid as line updates with style id 0 leave it: every cell its own
\* character, every third cell never written.
LabelGrid(sz) ==
    [y \in 0..(sz[2] - 1) |->
        [x \in 0..(sz[1] - 1) |->
            IF (x + 2 * y) % 3 = 2 THEN None
            ELSE <<Alphabet[y * sz[1] + x + 1], StyleNew(InitColors)>>]]

ScrollSizes == ((ScrollWidth - 1)..ScrollWidth) \X ((ScrollHeight - 1)..ScrollHeight)

InitScroll ==
    /\ size \in ScrollSizes
    /\ grid = LabelGrid(size)
    /\ default_colors = InitColors
    /\ defined_styles = EmptyMap
    /\ previous_style = Some(StyleNew(InitColors))
    /\ status = "ok"
    /\ commands = <<>>
    /\ last = [op |-> "new"]
    /\ prev = [op |-> "none"]
    /\ steps = 0

Rects(h, w) ==
    { <<t, b, l, r>> \in (0..h) \X (0..h) \X (0..w) \X (0..w) : t <= b /\ l <= r }

Deltas == (-MaxDelta)..MaxDelta

ScrollOnce ==
    /\ last.op = "new"
    /\ \E rect \in Rects(ScrollHeight, ScrollWidth), rows \in Deltas, cols \in Deltas :
          ScrollRegion(rect[1], rect[2], rect[3], rect[4], rows, cols)

ScrollBack ==
    /\ last.op = "scroll_region"
    /\ prev.op = "new"
    /\ ScrollRegion(last.top, last.bot, last.left, last.right, -last.rows, -last.cols)

NextScroll == ScrollOnce \/ ScrollBack

SpecScroll == InitScroll /\ [][NextScroll]_vars

(***************************************************************************)
(* build_draw_commands alone, on every grid of at most MaxCells cells.     *)
(***************************************************************************)
CompactCells ==
    { None,
      <<"a", StyleNew(InitColors)>>,
      <<"b", StyleNew(InitColors)>>,
      <<"a", BoldRed>> }

CompactSizes ==
    { sz \in (0..MaxCells) \X (0..MaxCells) : sz[1] * sz[2] <= MaxCells }

InitCompact ==
    /\ size \in CompactSizes
    /\ grid \in [0..(size[2] - 1) -> [0..(size[1] - 1) -> CompactCells]]
    /\ default_colors = InitColors
    /\ defined_styles = Insert(EmptyMap, 1, BoldRed)
    /\ previous_style = Some(StyleNew(InitColors))
    /\ status = "ok"
    /\ commands = <<>>
    /\ last = [op |-> "new"]
    /\ prev = [op |-> "none"]
    /\ steps = 0

NextCompact == last.op = "new" /\ Build

SpecCompact == InitCompact /\ [][NextCompact]_vars

(***************************************************************************)
(* Properties                                                              *)
(***************************************************************************)
Applied(op) == last.op = op /\ status = "ok"

\* The cells a line update (row, col_start, text) targets inside grid g.
TargetCols(g, row, col_start, text) ==
    IF row \in DOMAIN g
    THEN { x \in DOMAIN g[row] : x - col_start >= 0 /\ x - col_start < Len(text) }
    ELSE {}

\* Every cell the last line update targeted holds its character with style st.
LastDrawWrote(st) ==
    \A x \in TargetCols(grid, last.row, last.col_start, last.text) :
        grid[last.row][x] = <<last.text[x - last.col_start + 1], st>>

PlainStyle(colors) ==
    [colors |-> colors, reverse |-> FALSE, italic |-> FALSE, bold |-> FALSE,
     strikethrough |-> FALSE, underline |-> FALSE, undercurl |-> FALSE,
     blend |-> 0]

\* C1: a line update without style id that immediately follows a line update
\* with an explicit style id resolves to the style the preceding update
\* resolved, and every cell it writes holds that style, whatever rows and
\* columns the two updates target and also when the preceding one wrote no cell.
C1_ReusesExplicitStyle ==
    ( /\ Applied("draw") /\ last.style_id = None
      /\ prev.op = "draw" /\ IsSome(prev.style_id) )
    => /\ last.style = prev.style
       /\ previous_style = prev.style
       /\ LastDrawWrote(Unwrap(prev.style))

\* The preceding update named the registered id 1 on a row below the grid and
\* wrote nothing; the update without id then wrote row 0 in that style.
C1_Witness ==
    /\ Applied("draw") /\ last.style_id = None
    /\ prev.op = "draw" /\ prev.style_id = Some(1)
    /\ prev.row >= VecLen(prev.before.grid)
    /\ last.row = 0
    /\ TargetCols(grid, last.row, last.col_start, last.text) # {}
    /\ Unwrap(prev.style) # PlainStyle(default_colors)
    /\ grid[0][0] = <<"a", Unwrap(prev.style)>>

\* C2: a line update with style id 0 resolves to the style made of the
\* current default colors with every attribute false and blend 0, and writes
\* its cells with it, whatever the registry binds to id 0 and whatever the
\* previous style is.
C2_StyleZeroIsDefault ==
    ( Applied("draw") /\ last.style_id = Some(0) )
    => /\ last.style = Some(PlainStyle(default_colors))
       /\ LastDrawWrote(PlainStyle(default_colors))

\* define_style bound id 0, the default colors were changed, a previous style
\* other than the default one was recorded, and cells were written with id 0.
C2_Witness ==
    /\ Applied("draw") /\ last.style_id = Some(0)
    /\ 0 \in DOMAIN defined_styles
    /\ default_colors # InitColors
    /\ IsSome(last.before.previous_style)
    /\ last.before.previous_style # Some(PlainStyle(default_colors))
    /\ TargetCols(grid, last.row, last.col_start, last.text) # {}

\* C3 as claimed: after clear() no previous style is recorded, and the first
\* line update without style id after the clear resolves to the default style.
C3_ClearDropsPreviousStyle ==
    /\ Applied("clear") => previous_style = None
    /\ ( Applied("draw") /\ last.style_id = None /\ prev.op = "clear" )
       => last.style = Some(PlainStyle(default_colors))

\* C3, amended: clear() leaves the previous style as it was, so the first line
\* update without style id after the clear resolves to the style of the last
\* update applied before the clear, and to the default style only when no
\* update was applied before.
C3_ClearKeepsPreviousStyle ==
    /\ Applied("clear") => previous_style = last.before.previous_style
    /\ ( Applied("draw") /\ last.style_id = None /\ prev.op = "clear" )
       => last.style = IF IsSome(prev.before.previous_style)
                       THEN prev.before.previous_style
                       ELSE Some(PlainStyle(default_colors))

\* A style other than the default one was in use before the clear, and the
\* update without id after the clear wrote cells with it.
C3_Witness ==
    /\ Applied("draw") /\ last.style_id = None /\ prev.op = "clear"
    /\ last.style # Some(PlainStyle(default_colors))
    /\ last.style = prev.before.previous_style
    /\ TargetCols(grid, last.row, last.col_start, last.text) # {}
    /\ LastDrawWrote(Unwrap(prev.before.previous_style))

Covers(cmd, r, c) ==
    cmd.row = r /\ cmd.col_start <= c /\ c < cmd.col_start + Len(cmd.text)

\* C4: the commands of build_draw_commands reproduce exactly the filled
\* cells: every filled cell is covered by exactly one command, which holds
\* the cell's character at the cell's offset and the cell's style; no
\* command covers an empty cell or a column outside its row.
C4_CommandsReproduceFilledCells ==
    last.op = "build_draw_commands"
    => /\ \A r \in DOMAIN grid : \A c \in DOMAIN grid[r] :
            LET covering == { i \in DOMAIN commands : Covers(commands[i], r, c) }
            IN  IF IsSome(grid[r][c])
                THEN /\ Cardinality(covering) = 1
                     /\ \A i \in covering :
                           /\ commands[i].text[c - commands[i].col_start + 1] = grid[r][c][1]
                           /\ commands[i].style = grid[r][c][2]
                ELSE covering = {}
       /\ \A i \in DOMAIN commands :
            /\ commands[i].row \in DOMAIN grid
            /\ commands[i].col_start >= 0
            /\ commands[i].col_start + Len(commands[i].text)
                  <= VecLen(grid[commands[i].row])

\* Commands were built for a grid of two rows or more with an empty cell
\* between filled ones, one of them a run of two different characters.
C4_Witness ==
    /\ last.op = "build_draw_commands"
    /\ VecLen(grid) >= 2
    /\ Len(commands) >= 3
    /\ \E i \in DOMAIN commands : commands[i].text = <<"a", "b">>
    /\ \E r \in DOMAIN grid : \E c \in DOMAIN grid[r] :
          /\ c >= 1 /\ (c + 1) \in DOMAIN grid[r]
          /\ grid[r][c] = None /\ IsSome(grid[r][c - 1]) /\ IsSome(grid[r][c + 1])

\* C5 as claimed: no two commands emitted consecutively for a row have
\* equal style.
C5_ConsecutiveCommandsDiffer ==
    last.op = "build_draw_commands"
    => \A i \in DOMAIN commands :
          ( (i + 1) \in DOMAIN commands /\ commands[i].row = commands[i + 1].row )
          => commands[i].style # commands[i + 1].style

\* C5, amended: no two commands emitted consecutively for a row that touch
\* (the first ends at the column where the next starts) have equal style;
\* two consecutive commands of a row that an empty cell separates may have
\* equal style.
C5_TouchingCommandsDiffer ==
    last.op = "build_draw_commands"
    => \A i \in DOMAIN commands :
          ( /\ (i + 1) \in DOMAIN commands
            /\ commands[i].row = commands[i + 1].row
            /\ commands[i].col_start + Len(commands[i].text) = commands[i + 1].col_start )
          => commands[i].style # commands[i + 1].style

\* One row gave two touching commands, of different styles, and two
\* commands of equal style that an empty cell separates.
C5_Witness ==
    /\ last.op = "build_draw_commands"
    /\ \E i \in DOMAIN commands :
          /\ (i + 1) \in DOMAIN commands
          /\ commands[i].row = commands[i + 1].row
          /\ commands[i].col_start + Len(commands[i].text) = commands[i + 1].col_start
          /\ commands[i].style # commands[i + 1].style
    /\ \E i \in DOMAIN commands :
          /\ (i + 1) \in DOMAIN commands
          /\ commands[i].row = commands[i + 1].row
          /\ commands[i].col_start + Len(commands[i].text) < commands[i + 1].col_start
          /\ commands[i].style = commands[i + 1].style

RectInside(g, top, bot, left, right) ==
    /\ 0 <= top /\ top <= bot /\ bot <= VecLen(g)
    /\ 0 <= left /\ left <= right /\ right <= Width(g)

\* The event ev is a scroll of a rectangle inside the grid it found.
ScrollInside(ev) ==
    /\ ev.op = "scroll_region"
    /\ RectInside(ev.before.grid, ev.top, ev.bot, ev.left, ev.right)

InRect(y, x, ev) ==
    /\ ev.top <= y /\ y < ev.bot
    /\ ev.left <= x /\ x < ev.right

\* The source range along one axis by the rule of the row range.
AxisRule(lo, hi, delta) ==
    IF delta > 0 THEN <<lo + delta, hi>>
    ELSE IF delta < 0 THEN <<lo, hi + delta>>
    ELSE <<lo, hi>>

\* The cells of the rectangle whose content a shift by ev's deltas pushes
\* over the rectangle's edge: those outside the source rows and columns.
ClampedAway(y, x, ev) ==
    /\ InRect(y, x, ev)
    /\ ~ ( /\ AxisRule(ev.top, ev.bot, ev.rows)[1] <= y
           /\ y < AxisRule(ev.top, ev.bot, ev.rows)[2]
           /\ AxisRule(ev.left, ev.right, ev.cols)[1] <= x
           /\ x < AxisRule(ev.left, ev.right, ev.cols)[2] )

\* C6: after a shift of a rectangle inside the grid by (dr, dc) and the shift
\* of the same rectangle by (-dr, -dc), every cell of the grid whose content
\* the first shift did not clamp away holds its original content.
C6_RoundTripRestores ==
    ( /\ Applied("scroll_region") /\ ScrollInside(prev)
      /\ <<last.top, last.bot, last.left, last.right>>
            = <<prev.top, prev.bot, prev.left, prev.right>>
      /\ last.rows = -prev.rows /\ last.cols = -prev.cols )
    => \A y \in DOMAIN grid : \A x \in DOMAIN grid[y] :
          ~ClampedAway(y, x, prev) => grid[y][x] = prev.before.grid[y][x]

\* C7: the source columns of scroll_region follow from the column delta alone
\* by the rule of the rows, whatever the row delta; a shift with row delta 0
\* and column delta c < 0 copies columns [left, right + c) to columns
\* [left - c, right) of the same rows.
C7_SourceColumnsFollowColumnDelta ==
    ( Applied("scroll_region") /\ ScrollInside(last) )
    => /\ SrcCols(last.left, last.right, last.rows, last.cols)
             = AxisRule(last.left, last.right, last.cols)
       /\ ( last.rows = 0 /\ last.cols < 0 )
          => \A y \in last.top..(last.bot - 1) :
                \A x \in (last.left - last.cols)..(last.right - 1) :
                   grid[y][x] = last.before.grid[y][x + last.cols]

Abs(n) == IF n < 0 THEN -n ELSE n

\* C8: for a rectangle inside the grid, column delta 0 and row delta d with
\* 0 < |d| < bottom - top, the cells of the destination rows hold the content
\* that was d rows further, and the vacated rows keep their content, also
\* where source and destination rows overlap.
C8_RowShiftMovesContent ==
    ( /\ Applied("scroll_region") /\ ScrollInside(last)
      /\ last.cols = 0 /\ last.rows # 0
      /\ Abs(last.rows) < last.bot - last.top )
    => LET d == last.rows
           before == last.before.grid
       IN  /\ d > 0 =>
                /\ \A r \in last.top..(last.bot - d - 1) :
                      \A c \in last.left..(last.right - 1) :
                         grid[r][c] = before[r + d][c]
                /\ \A r \in (last.bot - d)..(last.bot - 1) : grid[r] = before[r]
           /\ d < 0 =>
                /\ \A r \in (last.top - d)..(last.bot - 1) :
                      \A c \in last.left..(last.right - 1) :
                         grid[r][c] = before[r + d][c]
                /\ \A r \in last.top..(last.top - d - 1) : grid[r] = before[r]

\* Three rows were shifted down by one: the source rows 0..1 and the
\* destination rows 1..2 overlap in row 1.
C8_Witness ==
    /\ Applied("scroll_region") /\ ScrollInside(last)
    /\ last.cols = 0 /\ last.rows = -1
    /\ last.top = 0 /\ last.bot = 3
    /\ last.left < last.right
    /\ grid[2] # last.before.grid[2]
    /\ grid[1] # last.before.grid[1]

\* C9: scroll_region with both deltas 0 on a rectangle inside the grid
\* changes no cell, nor the previous style, the registry, the default colors
\* or the size.
C9_ZeroShiftIsNoOp ==
    ( /\ last.op = "scroll_region" /\ ScrollInside(last)
      /\ last.rows = 0 /\ last.cols = 0 )
    => /\ status = "ok"
       /\ grid = last.before.grid
       /\ previous_style = last.before.previous_style
       /\ defined_styles = last.before.defined_styles
       /\ default_colors = last.before.default_colors
       /\ size = last.before.size

\* A rectangle of filled cells that does not start at column 0 was shifted by
\* (0, 0).
C9_Witness ==
    /\ Applied("scroll_region") /\ ScrollInside(last)
    /\ last.rows = 0 /\ last.cols = 0
    /\ last.top < last.bot /\ 0 < last.left /\ last.left < last.right
    /\ IsSome(grid[last.top][last.left])
    /\ grid[last.top][last.left] # grid[last.top][0]

HasSize(g, sz) ==
    /\ VecLen(g) = sz[2]
    /\ \A r \in DOMAIN g : VecLen(g[r]) = sz[1]

SameShape(g, h) ==
    /\ DOMAIN g = DOMAIN h
    /\ \A r \in DOMAIN g : DOMAIN g[r] = DOMAIN h[r]

C11_RejectedResizeIsNotFatal ==
    ( last.op = "resize" /\ ~last.granted )
    => /\ size = last.before.size
       /\ grid = last.before.grid
       /\ status = "ok"

\* C11, amended: a resize the host rejects is fatal.  resize panics before it
\* assigns the size, so the recorded size and the grid are unchanged, and no
\* event is applied after the panic.
C11_RejectedResizeIsFatal ==
    /\ []( ( last.op = "resize" /\ ~last.granted )
           => /\ size = last.before.size
              /\ grid = last.before.grid
              /\ status = "panicked" )
    /\ [][status = "ok"]_vars

\* After a line update, the host rejected a resize to another size.
C11_Witness ==
    /\ last.op = "resize" /\ ~last.granted
    /\ <<last.new_width, last.new_height>> # size
    /\ prev.op = "draw"
    /\ status = "panicked"

\* The event ev is a line update whose style id resolves and whose row is
\* below the grid it found.
DroppedDraw(ev) ==
    /\ ev.op = "draw"
    /\ ~LookupFails(ev.style_id, ev.before.defined_styles)
    /\ ev.row >= VecLen(ev.before.grid)

\* C12: a line update whose row is beyond the grid height is dropped without
\* failure: no cell changes, the style it resolved becomes the previous
\* style, and a following update with no style id uses that style.
C12_OutOfRangeRowIsDropped ==
    /\ DroppedDraw(last)
       => /\ status = "ok"
          /\ grid = last.before.grid
          /\ IsSome(last.style)
          /\ previous_style = last.style
    /\ ( DroppedDraw(prev) /\ last.op = "draw" /\ last.style_id = None )
       => /\ status = "ok"
          /\ last.style = prev.style
          /\ LastDrawWrote(Unwrap(prev.style))

\* An update naming the registered id 1 on a row below a grid with filled
\* cells was dropped, and the update with no id after it wrote in its style.
C12_Witness ==
    /\ DroppedDraw(prev) /\ prev.style_id = Some(1)
    /\ \E y \in DOMAIN prev.before.grid : \E x \in DOMAIN prev.before.grid[y] :
          IsSome(prev.before.grid[y][x])
    /\ prev.before.previous_style # prev.style
    /\ Applied("draw") /\ last.style_id = None
    /\ TargetCols(grid, last.row, last.col_start, last.text) # {}
    /\ LastDrawWrote(Unwrap(prev.style))

\* C13: a line update with a non-zero style id that was never defined fails
\* fatally, whatever its row and column, before any cell or the previous
\* style is modified; one with a defined non-zero id does not fail and uses
\* the style most recently bound to the id by define_style.
C13_UndefinedIdIsFatal ==
    /\ ( last.op = "draw" /\ IsSome(last.style_id) /\ Unwrap(last.style_id) # 0 )
       => IF Unwrap(last.style_id) \in DOMAIN last.before.defined_styles
          THEN /\ status = "ok"
               /\ last.style = Some(last.before.defined_styles[Unwrap(last.style_id)])
               /\ LastDrawWrote(last.before.defined_styles[Unwrap(last.style_id)])
          ELSE /\ status = "panicked"
               /\ grid = last.before.grid
               /\ previous_style = last.before.previous_style
    /\ ( /\ last.op = "draw" /\ prev.op = "define_style"
         /\ last.style_id = Some(prev.id) /\ prev.id # 0 )
       => /\ status = "ok"
          /\ last.style = Some(prev.style)

\* Id 1 was bound, then bound again to another style, and the line update
\* naming it wrote cells in the second style.
C13_Witness ==
    /\ Applied("draw") /\ last.style_id = Some(1)
    /\ prev.op = "define_style" /\ prev.id = 1
    /\ 1 \in DOMAIN prev.before.defined_styles
    /\ prev.before.defined_styles[1] # prev.style
    /\ last.style = Some(prev.style)
    /\ TargetCols(grid, last.row, last.col_start, last.text) # {}

\* The event ev is a set_default_colors or a define_style.
StyleEvent(ev) == ev.op \in { "set_default_colors", "define_style" }

\* set_default_colors and define_style leave the cells and the previous
\* style alone, so the draw commands of the grid are the same as before.
StyleEventsKeepCells ==
    StyleEvent(last)
    => /\ status = "ok"
       /\ grid = last.before.grid
       /\ previous_style = last.before.previous_style
       /\ BuildDrawCommands(grid) = BuildDrawCommands(last.before.grid)

\* C14 as claimed: set_default_colors and define_style leave every cell and
\* the previous style unchanged, and only line updates with an explicit id
\* see the new colours or style: one without id resolves as it would have
\* before the event.
C14_OnlyExplicitIdsSeeNewStyle ==
    /\ StyleEventsKeepCells
    /\ ( last.op = "draw" /\ last.style_id = None /\ StyleEvent(prev) )
       => last.style = Some(ResolveStyle(None, prev.before.previous_style,
                                         prev.before.default_colors,
                                         prev.before.defined_styles))

\* C14, amended: set_default_colors and define_style leave every cell and
\* the previous style unchanged; a line update applied afterwards sees the
\* new colours with id 0, the new style with the redefined id, and, with no
\* id, the previous style when one is recorded and the new default colours
\* when none is.
C14_StyleResolvedAtWriteTime ==
    /\ StyleEventsKeepCells
    /\ ( Applied("draw") /\ StyleEvent(prev) )
       => /\ last.style_id = Some(0) => LastDrawWrote(PlainStyle(default_colors))
          /\ ( prev.op = "define_style" /\ prev.id # 0 /\ last.style_id = Some(prev.id) )
             => LastDrawWrote(prev.style)
          /\ last.style_id = None
             => IF IsSome(prev.before.previous_style)
                THEN LastDrawWrote(Unwrap(prev.before.previous_style))
                ELSE LastDrawWrote(PlainStyle(default_colors))

\* Id 1, already used by a cell, was redefined: the next line update naming
\* it wrote the new style and the older cell kept the old one.
C14_Witness ==
    /\ Applied("draw") /\ last.style_id = Some(1)
    /\ prev.op = "define_style" /\ prev.id = 1
    /\ 1 \in DOMAIN prev.before.defined_styles
    /\ prev.before.defined_styles[1] # prev.style
    /\ TargetCols(grid, last.row, last.col_start, last.text) # {}
    /\ \E y \in DOMAIN grid : \E x \in DOMAIN grid[y] :
          /\ IsSome(grid[y][x])
          /\ grid[y][x][2] = prev.before.defined_styles[1]

\* Every colour of style st is set.
FullyResolved(st) ==
    /\ IsSome(st.colors.foreground)
    /\ IsSome(st.colors.background)
    /\ IsSome(st.colors.special)

\* C15 as claimed: every filled cell holds a style none of whose colours is
\* unset.
C15_CellsAreFullyResolved ==
    \A y \in DOMAIN grid : \A x \in DOMAIN grid[y] :
        IsSome(grid[y][x]) => FullyResolved(grid[y][x][2])

\* C15, amended: the default colours are always fully set, so a cell written
\* with style 0 holds no unset colour; a cell written with a registered
\* style holds the colours exactly as registered, unset ones included, and
\* a cell holds an unset colour only in a style the host registered.
C15_CellsHoldStylesAsRegistered ==
    /\ FullyResolved(PlainStyle(default_colors))
    /\ ( Applied("draw") /\ last.style_id = Some(0) )
       => LastDrawWrote(PlainStyle(default_colors))
    /\ ( Applied("draw") /\ IsSome(last.style_id) /\ Unwrap(last.style_id) # 0 )
       => LastDrawWrote(last.before.defined_styles[Unwrap(last.style_id)])
    /\ \A y \in DOMAIN grid : \A x \in DOMAIN grid[y] :
          IsSome(grid[y][x])
          => FullyResolved(grid[y][x][2]) \/ grid[y][x][2] \in StyleChoices

\* A line update naming a style registered with unset colours wrote a cell
\* whose background is unset.
C15_Witness ==
    /\ Applied("draw") /\ last.style_id = Some(1)
    /\ ~FullyResolved(last.before.defined_styles[1])
    /\ \E x \in TargetCols(grid, last.row, last.col_start, last.text) :
          grid[last.row][x][2].colors.background = None

\* Some cell of grid g is filled.
HasFilledCell(g) == \E y \in DOMAIN g : \E x \in DOMAIN g[y] : IsSome(g[y][x])

\* C16: after clear the grid has the dimensions of the recorded size and
\* every cell is empty, and build_draw_commands right after clear yields an
\* empty command list, whatever events came before.
C16_ClearedGridBuildsNothing ==
    /\ last.op = "clear"
       => /\ status = "ok"
          /\ HasSize(grid, size)
          /\ ~HasFilledCell(grid)
          /\ BuildDrawCommands(grid) = <<>>
    /\ ( last.op = "build_draw_commands" /\ prev.op = "clear" )
       => commands = <<>>

\* A grid with filled cells and the shape of an older size was cleared and
\* the commands built from it are none.
C16_Witness ==
    /\ last.op = "build_draw_commands" /\ prev.op = "clear"
    /\ HasFilledCell(prev.before.grid)
    /\ ~HasSize(prev.before.grid, prev.before.size)
    /\ HasSize(grid, size)
    /\ commands = <<>>

\* The event ev is a line update whose style id resolves and whose row is
\* inside the grid it found.
InRangeDraw(ev) ==
    /\ ev.op = "draw"
    /\ ~LookupFails(ev.style_id, ev.before.defined_styles)
    /\ ev.row < VecLen(ev.before.grid)

\* C17: a line update on an in-range row with start column s and text of
\* length n sets exactly the cells (row, s + i), 0 <= i < n, s + i < width,
\* to (i-th character, resolved style); characters past the end of the row
\* are dropped without error, and every other cell, the registry, the
\* default colours and the size are unchanged.
C17_DrawWritesExactlyItsCells ==
    InRangeDraw(last)
    => /\ status = "ok"
       /\ IsSome(last.style)
       /\ SameShape(grid, last.before.grid)
       /\ \A y \in DOMAIN grid : \A x \in DOMAIN grid[y] :
             grid[y][x] =
                IF /\ y = last.row
                   /\ x - last.col_start >= 0
                   /\ x - last.col_start < Len(last.text)
                THEN <<last.text[x - last.col_start + 1], Unwrap(last.style)>>
                ELSE last.before.grid[y][x]
       /\ defined_styles = last.before.defined_styles
       /\ default_colors = last.before.default_colors
       /\ size = last.before.size

\* A text running past the end of its row was written up to the last column
\* while a filled cell of another row stayed as it was.
C17_Witness ==
    /\ InRangeDraw(last) /\ status = "ok"
    /\ last.col_start + Len(last.text) > Width(grid)
    /\ TargetCols(grid, last.row, last.col_start, last.text) # {}
    /\ \E y \in DOMAIN grid : \E x \in DOMAIN grid[y] :
          /\ y # last.row
          /\ IsSome(grid[y][x])
          /\ grid[y][x] = last.before.grid[y][x]

\* C18: the command list of build_draw_commands is ordered: rows never
\* decrease along the list, and within a row each command starts after the
\* preceding one and the preceding one ends at or before that start; the
\* build modifies no session state.
C18_CommandsAreOrdered ==
    last.op = "build_draw_commands"
    => /\ commands = BuildDrawCommands(grid)
       /\ \A i \in 1..(Len(commands) - 1) :
             /\ commands[i].row <= commands[i + 1].row
             /\ commands[i].row = commands[i + 1].row
                => /\ commands[i].col_start < commands[i + 1].col_start
                   /\ commands[i].col_start + Len(commands[i].text)
                         <= commands[i + 1].col_start
       /\ Snapshot = last.before
       /\ status = "ok"

\* The list built holds two commands of one row with a gap between them and
\* a command of a later row.
C18_Witness ==
    /\ last.op = "build_draw_commands"
    /\ \E i \in 1..(Len(commands) - 1) :
          /\ commands[i].row = commands[i + 1].row
          /\ commands[i].col_start + Len(commands[i].text) < commands[i + 1].col_start
    /\ \E i \in 1..(Len(commands) - 1) :
          commands[i].row < commands[i + 1].row

\* The cells the last scroll_region assigned.
LastScrollWrites ==
    ScrollWrites(last.before.grid, last.top, last.bot, last.left, last.right,
                 last.rows, last.cols)

\* C19: scroll_region on a rectangle inside the grid assigns no cell outside
\* the rectangle, so every cell outside it holds the content it held before
\* the call, whatever the deltas.
C19_WritesStayInsideRectangle ==
    ScrollInside(last)
    => /\ status = "ok"
       /\ \A c \in LastScrollWrites : InRect(c[1], c[2], last)
       /\ \A y \in DOMAIN grid : \A x \in DOMAIN grid[y] :
             ~InRect(y, x, last) => grid[y][x] = last.before.grid[y][x]

\* The absolute delta along one axis is at least the extent lo..hi.
DeltaCoversExtent(lo, hi, delta) ==
    ( IF delta < 0 THEN -delta ELSE delta ) >= hi - lo

\* C20: scroll_region on a rectangle inside the grid never fails: every cell
\* it reads is inside the grid, every destination outside the grid is
\* skipped, and a rectangle of zero height or width, or a delta at least as
\* large as the rectangle's extent, assigns no cell.
C20_ScrollInsideNeverFails ==
    ScrollInside(last)
    => /\ status = "ok"
       /\ ~ScrollFails(last.before.grid, last.top, last.bot, last.left,
                       last.right, last.rows, last.cols)
       /\ SameShape(grid, last.before.grid)
       /\ ( \/ last.top = last.bot
            \/ last.left = last.right
            \/ DeltaCoversExtent(last.top, last.bot, last.rows)
            \/ DeltaCoversExtent(last.left, last.right, last.cols) )
          => /\ LastScrollWrites = {}
             /\ grid = last.before.grid

=============================================================================
